---- MODULE Spec2Model ----
(***************************************************************************)
(* Model of deepagents/graph.py: the factory create_deep_agent, which      *)
(* composes a prompt, resolves the model and the state schema, builds the  *)
(* task tool, selects the post-model hook and calls create_react_agent.    *)
(*                                                                         *)
(* One call of create_deep_agent is followed statement by statement (pc    *)
(* holds the source line of the next statement).  Python values are        *)
(* records tagged with their type; lists live in a heap so that aliasing   *)
(* and mutation are visible.  The collaborators get_default_model,         *)
(* _create_task_tool, create_interrupt_hook and create_react_agent are     *)
(* outside this file: each call is logged in `calls` with the arguments it *)
(* received and returns an opaque fresh value.  They are taken to return   *)
(* normally and not to mutate their arguments.                             *)
(***************************************************************************)
EXTENDS Integers, Sequences, FiniteSets, TLC

VARIABLES
    pc,                       \* line of the next statement, or idle/returned/raised
    args,                     \* the arguments as the caller supplied them
    tools_at_call,            \* history: items of the caller's tools at call time
    heap,                     \* heap[id] = items of the list object id
    prompt,                   \* locals of create_deep_agent ...
    built_in_tools,
    model,
    state_schema,
    task_tool,
    all_tools,
    selected_post_model_hook,
    calls,                    \* log of collaborator calls, in order
    outcome                   \* how the call ended

vars == <<pc, args, tools_at_call, heap, prompt, built_in_tools, model,
          state_schema, task_tool, all_tools, selected_post_model_hook,
          calls, outcome>>

(***************************************************************************)
(* Bounds                                                                  *)
(***************************************************************************)
MaxTools == 2        \* longest tools sequence a caller supplies
MaxInstr == 2        \* longest instructions string a caller supplies

(***************************************************************************)
(* Python values                                                           *)
(***************************************************************************)
None == [type |-> "NoneType"]
Unbound == [type |-> "unbound"]          \* a local not yet assigned
Str(s) == [type |-> "str", value |-> s]
ListRef(i) == [type |-> "list", id |-> i]
Tool(n) == [type |-> "tool", name |-> n]

\* Python truth testing: None, empty containers and empty strings are false;
\* an object is true unless its class says otherwise (field bool).
TruthyIn(h, v) ==
    CASE v.type = "NoneType" -> FALSE
      [] v.type = "str"      -> v.value # <<>>
      [] v.type = "dict"     -> v.keys # {}
      [] v.type = "list"     -> h[v.id] # <<>>
      [] v.type = "callable" -> v.bool
      [] OTHER               -> TRUE

Truthy(v) == TruthyIn(heap, v)

\* a or b
PyOr(a, b) == IF Truthy(a) THEN a ELSE b

\* the module-level prompt template, one token per block of its text
base_prompt ==
    Str(<< "\n", "You are a curious, meticulous and highly effective researcher.",
           "<context>", "<Task>", "<Available Tools>", "<WHO YOU ARE>",
           "<Show Your Thinking>", "<Skill Execution Pattern>",
           "<Planning and Task Management with Todos>", "\n" >>)

DeepAgentState == [type |-> "type", name |-> "DeepAgentState"]

(***************************************************************************)
(* Inputs a caller can supply                                              *)
(***************************************************************************)
SeqsUpTo(S, n) == UNION { [1..k -> S] : k \in 0..n }

ToolNames == {"t1", "t2"}
Chars == {"a", "\n"}

ToolSeqs == SeqsUpTo({Tool(n) : n \in ToolNames}, MaxTools)
InstructionStrings == {Str(s) : s \in SeqsUpTo(Chars, MaxInstr)}
Models == {None, Str(<<>>), [type |-> "LanguageModel", name |-> "m"]}
SubAgent == [type |-> "dict", keys |-> {"name", "description", "prompt"}]
\* None, or the items of the list the caller passes
SubagentArgs == {None, [type |-> "items", items |-> <<>>],
                 [type |-> "items", items |-> <<SubAgent>>]}
StateSchemas == {None, [type |-> "type", name |-> "CustomState"]}
InterruptConfigs == {None, [type |-> "dict", keys |-> {}],
                     [type |-> "dict", keys |-> {"t1"}]}
ConfigSchemas == {None, [type |-> "type", name |-> "Config"]}
Checkpointers == {None, [type |-> "Checkpointer", name |-> "saver"]}
Hooks == {None, [type |-> "callable", name |-> "hook", bool |-> TRUE],
          [type |-> "callable", name |-> "falsy_hook", bool |-> FALSE]}

(***************************************************************************)
(* The values the statements compute                                       *)
(***************************************************************************)
\* mutant of ComposedPrompt: a newline is put between template and instructions
ComposedPromptSeparated(instructions) ==
    Str(base_prompt.value \o <<"\n">> \o instructions.value)

\* line 177: base_prompt + instructions
ComposedPrompt(instructions) == Str(base_prompt.value \o instructions.value)

\* mutant of NeedsDefaultModel: `if not model`
NeedsDefaultModelFalsy(m) == ~Truthy(m)

\* line 179: if model is None
NeedsDefaultModel(m) == m = None

\* mutant of ResolvedStateSchema: the default is forgotten
ResolvedStateSchemaNoDefault(s) == s

\* line 181: state_schema or DeepAgentState
ResolvedStateSchema(s) == PyOr(s, DeepAgentState)

\* line 183: list(tools) + built_in_tools
TaskToolItems(toolItems, builtinItems) == toolItems \o builtinItems

\* mutant of AllToolsItems: duplicates are dropped, as list(dict.fromkeys(tools))
RECURSIVE Dedup(_)
Dedup(s) ==
    IF s = <<>> THEN <<>>
    ELSE LET r == Dedup(SubSeq(s, 1, Len(s) - 1)) IN
         IF \E i \in DOMAIN r : r[i] = s[Len(s)] THEN r ELSE Append(r, s[Len(s)])

AllToolsItemsDeduplicated(builtinItems, toolItems) == Dedup(builtinItems \o toolItems)

\* line 189: built_in_tools + list(tools)
AllToolsItems(builtinItems, toolItems) == builtinItems \o toolItems

\* mutant of BothSpecified: `or` in place of `and`
BothSpecifiedEither(hook, ic) == Truthy(hook) \/ Truthy(ic)

\* line 192: if post_model_hook and interrupt_config
BothSpecified(hook, ic) == Truthy(hook) /\ Truthy(ic)

\* mutant of HookBranch: truth tests in place of `is not None`
HookBranchTruthy(hook, ic) ==
    IF Truthy(hook) THEN "given"
    ELSE IF Truthy(ic) THEN "interrupt"
    ELSE "none"

\* lines 197-202: which branch of the elif chain is taken
HookBranch(hook, ic) ==
    IF hook # None THEN "given"
    ELSE IF ic # None THEN "interrupt"
    ELSE "none"

\* mutant of ReactAgentArgs: the checkpointer is not forwarded
ReactAgentArgsNoCheckpointer(m, p, tl, ss, hook, cs, cp) ==
    [model |-> m, prompt |-> p, tools |-> tl, state_schema |-> ss,
     post_model_hook |-> hook, config_schema |-> cs, checkpointer |-> None]

\* lines 204-212: the arguments of create_react_agent
ReactAgentArgs(m, p, tl, ss, hook, cs, cp) ==
    [model |-> m, prompt |-> p, tools |-> tl, state_schema |-> ss,
     post_model_hook |-> hook, config_schema |-> cs, checkpointer |-> cp]

\* line 204: return create_react_agent(...)
Returned(agent) == [kind |-> "return", value |-> agent]

\* lines 193-196: raise ValueError(...)
Raised(e) == [kind |-> "raise", value |-> e]
ValueError == [type |-> "ValueError"]

\* mutant of Program: the mutual-exclusivity check is made first
ProgramCheckFirst ==
    << "L192", "L177", "L178", "L179", "L181", "L182", "L189", "L204" >>

\* the statements of create_deep_agent in source order
Program == << "L177", "L178", "L179", "L181", "L182", "L189", "L192", "L204" >>

IndexOf(l) == CHOOSE i \in 1..Len(Program) : Program[i] = l
After(l) == IF IndexOf(l) = Len(Program) THEN "end" ELSE Program[IndexOf(l) + 1]

(***************************************************************************)
(* Initial state: no call yet                                              *)
(***************************************************************************)
Init ==
    /\ pc = "idle"
    /\ args = Unbound
    /\ tools_at_call = <<>>
    /\ heap = <<>>
    /\ prompt = Unbound
    /\ built_in_tools = Unbound
    /\ model = Unbound
    /\ state_schema = Unbound
    /\ task_tool = Unbound
    /\ all_tools = Unbound
    /\ selected_post_model_hook = Unbound
    /\ calls = <<>>
    /\ outcome = Unbound

(***************************************************************************)
(* Actions                                                                 *)
(***************************************************************************)
\* lines 144-154: a caller calls create_deep_agent; the parameters model and
\* state_schema are locals that the body reassigns
Call ==
    /\ pc = "idle"
    /\ \E tl \in ToolSeqs, ins \in InstructionStrings, m \in Models,
          sa \in SubagentArgs, ss \in StateSchemas,
          ic \in InterruptConfigs, cs \in ConfigSchemas,
          cp \in Checkpointers, hook \in Hooks :
          /\ heap' = IF sa = None THEN <<tl>> ELSE <<tl, sa.items>>
          /\ args' = [tools |-> ListRef(1), instructions |-> ins, model |-> m,
                      subagents |-> IF sa = None THEN None ELSE ListRef(2),
                      state_schema |-> ss, interrupt_config |-> ic,
                      config_schema |-> cs, checkpointer |-> cp,
                      post_model_hook |-> hook]
          /\ tools_at_call' = tl
          /\ model' = m
          /\ state_schema' = ss
    /\ pc' = Program[1]
    /\ UNCHANGED <<prompt, built_in_tools, task_tool, all_tools,
                   selected_post_model_hook, calls, outcome>>

\* line 177
ComposePrompt ==
    /\ pc = "L177"
    /\ prompt' = ComposedPrompt(args.instructions)
    /\ pc' = After("L177")
    /\ UNCHANGED <<args, tools_at_call, heap, built_in_tools, model,
                   state_schema, task_tool, all_tools,
                   selected_post_model_hook, calls, outcome>>

\* line 178
MakeBuiltInTools ==
    /\ pc = "L178"
    /\ heap' = Append(heap, <<>>)
    /\ built_in_tools' = ListRef(Len(heap) + 1)
    /\ pc' = After("L178")
    /\ UNCHANGED <<args, tools_at_call, prompt, model, state_schema,
                   task_tool, all_tools, selected_post_model_hook, calls,
                   outcome>>

\* lines 179-180
ResolveModel ==
    /\ pc = "L179"
    /\ IF NeedsDefaultModel(model)
       THEN LET d == [type |-> "LanguageModel", name |-> "default"] IN
            /\ calls' = Append(calls, [fn |-> "get_default_model", result |-> d])
            /\ model' = d
       ELSE UNCHANGED <<calls, model>>
    /\ pc' = After("L179")
    /\ UNCHANGED <<args, tools_at_call, heap, prompt, built_in_tools,
                   state_schema, task_tool, all_tools,
                   selected_post_model_hook, outcome>>

\* line 181
ResolveStateSchema ==
    /\ pc = "L181"
    /\ state_schema' = ResolvedStateSchema(state_schema)
    /\ pc' = After("L181")
    /\ UNCHANGED <<args, tools_at_call, heap, prompt, built_in_tools, model,
                   task_tool, all_tools, selected_post_model_hook, calls,
                   outcome>>

\* lines 182-188: list(tools) and the concatenation are new lists, and so is
\* the [] of `subagents or []` when subagents is None or empty
CreateTaskTool ==
    /\ pc = "L182"
    /\ LET copy == heap[args.tools.id]
           h1 == Append(heap, copy)
           h2 == Append(h1, TaskToolItems(copy, heap[built_in_tools.id]))
           toolsArg == ListRef(Len(h2))
           fresh == ~Truthy(args.subagents)
           h3 == IF fresh THEN Append(h2, <<>>) ELSE h2
           subArg == IF fresh THEN ListRef(Len(h3)) ELSE args.subagents
           t == [type |-> "tool", name |-> "task", call |-> Len(calls) + 1]
       IN /\ heap' = h3
          /\ calls' = Append(calls,
                 [fn |-> "_create_task_tool", tools |-> toolsArg,
                  instructions |-> args.instructions, subagents |-> subArg,
                  model |-> model, state_schema |-> state_schema,
                  result |-> t])
          /\ task_tool' = t
    /\ pc' = After("L182")
    /\ UNCHANGED <<args, tools_at_call, prompt, built_in_tools, model,
                   state_schema, all_tools, selected_post_model_hook, outcome>>

\* line 189
CollectAllTools ==
    /\ pc = "L189"
    /\ LET copy == heap[args.tools.id]
           h1 == Append(heap, copy)
           h2 == Append(h1, AllToolsItems(heap[built_in_tools.id], copy))
       IN /\ heap' = h2
          /\ all_tools' = ListRef(Len(h2))
    /\ pc' = After("L189")
    /\ UNCHANGED <<args, tools_at_call, prompt, built_in_tools, model,
                   state_schema, task_tool, selected_post_model_hook, calls,
                   outcome>>

\* lines 192-202
SelectPostModelHook ==
    /\ pc = "L192"
    /\ IF BothSpecified(args.post_model_hook, args.interrupt_config)
       THEN /\ outcome' = Raised(ValueError)
            /\ pc' = "raised"
            /\ UNCHANGED <<selected_post_model_hook, calls>>
       ELSE /\ LET b == HookBranch(args.post_model_hook, args.interrupt_config)
                   h == [type |-> "callable", name |-> "interrupt_hook",
                         bool |-> TRUE, config |-> args.interrupt_config]
               IN IF b = "given"
                  THEN /\ selected_post_model_hook' = args.post_model_hook
                       /\ UNCHANGED calls
                  ELSE IF b = "interrupt"
                  THEN /\ calls' = Append(calls,
                              [fn |-> "create_interrupt_hook",
                               config |-> args.interrupt_config, result |-> h])
                       /\ selected_post_model_hook' = h
                  ELSE /\ selected_post_model_hook' = None
                       /\ UNCHANGED calls
            /\ pc' = After("L192")
            /\ UNCHANGED outcome
    /\ UNCHANGED <<args, tools_at_call, heap, prompt, built_in_tools, model,
                   state_schema, task_tool, all_tools>>

\* lines 204-212
CreateReactAgent ==
    /\ pc = "L204"
    /\ LET agent == [type |-> "CompiledGraph", call |-> Len(calls) + 1]
           kw == ReactAgentArgs(model, prompt, all_tools, state_schema,
                                selected_post_model_hook, args.config_schema,
                                args.checkpointer)
       IN /\ calls' = Append(calls,
                 [fn |-> "create_react_agent", args |-> kw, result |-> agent])
          /\ outcome' = Returned(agent)
    /\ pc' = "returned"
    /\ UNCHANGED <<args, tools_at_call, heap, prompt, built_in_tools, model,
                   state_schema, task_tool, all_tools,
                   selected_post_model_hook>>

Next ==
    \/ Call
    \/ ComposePrompt
    \/ MakeBuiltInTools
    \/ ResolveModel
    \/ ResolveStateSchema
    \/ CreateTaskTool
    \/ CollectAllTools
    \/ SelectPostModelHook
    \/ CreateReactAgent

Spec == Init /\ [][Next]_vars

(***************************************************************************)
(* Properties                                                              *)
(***************************************************************************)
CallsOf(f) == {i \in 1..Len(calls) : calls[i].fn = f}
TheCall(f) == calls[CHOOSE i \in CallsOf(f) : TRUE]
Done == pc \in {"returned", "raised"}
ConfigError == Raised(ValueError)
HookSupplied == args.post_model_hook # None
InterruptSupplied == args.interrupt_config # None

\* C1: a call in which both post_model_hook and interrupt_config are not None
\* (whatever their contents, an empty interrupt_config included) ends by
\* raising ValueError and returns no agent.
C1_BothSuppliedRaises ==
    (Done /\ HookSupplied /\ InterruptSupplied)
        => /\ outcome = ConfigError
           /\ CallsOf("create_react_agent") = {}

\* C2: a call in which at most one of post_model_hook and interrupt_config is
\* supplied never raises the configuration error; it calls create_react_agent
\* exactly once and returns the object that call returned.
C2_AtMostOneSuppliedSucceeds ==
    (pc # "idle" /\ (~HookSupplied \/ ~InterruptSupplied))
        => /\ pc # "raised"
           /\ outcome # ConfigError
           /\ Done => /\ Cardinality(CallsOf("create_react_agent")) = 1
                      /\ outcome.kind = "return"
                      /\ outcome.value = TheCall("create_react_agent").result

C2_Witness ==
    /\ pc = "returned"
    /\ HookSupplied
    /\ ~InterruptSupplied

\* C3: the prompt create_react_agent receives is base_prompt followed by
\* instructions: base_prompt is its prefix, instructions its suffix, and its
\* length is the sum of the two lengths, for every instructions string
\* (the empty one included).
C3_PromptIsBaseThenInstructions ==
    pc = "returned"
        => LET p == TheCall("create_react_agent").args.prompt.value
               b == base_prompt.value
               i == args.instructions.value
           IN /\ Len(p) = Len(b) + Len(i)
              /\ SubSeq(p, 1, Len(b)) = b
              /\ SubSeq(p, Len(b) + 1, Len(p)) = i

C3_Witness ==
    /\ pc = "returned"
    /\ Len(args.instructions.value) >= 1
    /\ TheCall("create_react_agent").args.prompt.value
           = base_prompt.value \o args.instructions.value

\* C4: in every successful call the task tool built by _create_task_tool is
\* in the tool collection passed to create_react_agent.
C4_TaskToolPassedToEngine ==
    pc = "returned"
        => LET items == heap[TheCall("create_react_agent").args.tools.id]
           IN \E i \in DOMAIN items :
                  items[i] = TheCall("_create_task_tool").result

\* C5: in every successful call create_react_agent receives exactly the
\* config_schema and the checkpointer the caller supplied (None when none).
C5_ConfigSchemaAndCheckpointerForwarded ==
    pc = "returned"
        => LET kw == TheCall("create_react_agent").args
           IN /\ kw.config_schema = args.config_schema
              /\ kw.checkpointer = args.checkpointer

C5_Witness ==
    /\ pc = "returned"
    /\ args.config_schema # None
    /\ args.checkpointer # None
    /\ TheCall("create_react_agent").args.checkpointer = args.checkpointer

\* C6: the state schema is the caller's when one is supplied and
\* DeepAgentState otherwise; the same resolved schema goes to
\* _create_task_tool and to create_react_agent, and it is never None.
ExpectedStateSchema ==
    IF args.state_schema # None THEN args.state_schema ELSE DeepAgentState

C6_StateSchemaResolved ==
    /\ \A i \in CallsOf("_create_task_tool") :
           calls[i].state_schema = ExpectedStateSchema
    /\ \A i \in CallsOf("create_react_agent") :
           /\ calls[i].args.state_schema = ExpectedStateSchema
           /\ calls[i].args.state_schema # None
           /\ calls[i].args.state_schema
                  = TheCall("_create_task_tool").state_schema

C6_Witness ==
    /\ pc = "returned"
    /\ args.state_schema = None
    /\ TheCall("create_react_agent").args.state_schema = DeepAgentState

\* C7: in every successful call the post_model_hook create_react_agent
\* receives is the caller's hook, with create_interrupt_hook not called, when
\* a hook is supplied; otherwise the result of the single call
\* create_interrupt_hook(interrupt_config) when interrupt_config is supplied;
\* otherwise None, with create_interrupt_hook not called.
C7_PostModelHookSelection ==
    pc = "returned"
        => LET got == TheCall("create_react_agent").args.post_model_hook
               made == CallsOf("create_interrupt_hook")
           IN IF HookSupplied
              THEN got = args.post_model_hook /\ made = {}
              ELSE IF InterruptSupplied
              THEN /\ Cardinality(made) = 1
                   /\ TheCall("create_interrupt_hook").config
                          = args.interrupt_config
                   /\ got = TheCall("create_interrupt_hook").result
              ELSE got = None /\ made = {}

C7_Witness ==
    /\ pc = "returned"
    /\ ~HookSupplied
    /\ InterruptSupplied
    /\ Cardinality(CallsOf("create_interrupt_hook")) = 1

\* C8: get_default_model is called if and only if the model argument is None;
\* a supplied model is forwarded unchanged; the same resolved model goes to
\* _create_task_tool and to create_react_agent.
C8_ModelResolution ==
    /\ CallsOf("get_default_model") # {} => args.model = None
    /\ \A i \in CallsOf("_create_task_tool") \cup CallsOf("create_react_agent") :
           LET got == IF calls[i].fn = "create_react_agent"
                      THEN calls[i].args.model ELSE calls[i].model
           IN IF args.model = None
              THEN /\ Cardinality(CallsOf("get_default_model")) = 1
                   /\ got = TheCall("get_default_model").result
              ELSE got = args.model

C8_Witness ==
    /\ pc = "returned"
    /\ args.model = None
    /\ Cardinality(CallsOf("get_default_model")) = 1

\* C9: in every successful call the tool collection create_react_agent
\* receives is a new list holding the built-in tools (none) followed by the
\* caller's tools, each occurrence once and in the order supplied; the
\* caller's tools sequence is never mutated.
C9_ToolsCopiedInOrder ==
    /\ pc # "idle" => heap[args.tools.id] = tools_at_call
    /\ pc = "returned"
           => LET r == TheCall("create_react_agent").args.tools
              IN /\ r.id # args.tools.id
                 /\ args.subagents # None => r.id # args.subagents.id
                 /\ heap[built_in_tools.id] = <<>>
                 /\ heap[r.id] = heap[built_in_tools.id] \o tools_at_call

C9_Witness ==
    /\ pc = "returned"
    /\ Len(tools_at_call) >= 2
    /\ tools_at_call[1] = tools_at_call[2]
    /\ heap[TheCall("create_react_agent").args.tools.id] = tools_at_call

\* C10: the mutual-exclusivity check runs after model resolution and after
\* _create_task_tool and before create_react_agent: a call rejected with the
\* configuration error has called neither create_react_agent nor
\* create_interrupt_hook, and has called _create_task_tool and, when model is
\* None, get_default_model.
C10_CheckOrdering ==
    /\ pc \in {"L192", "raised"}
           => /\ CallsOf("_create_task_tool") # {}
              /\ args.model = None => CallsOf("get_default_model") # {}
              /\ CallsOf("create_react_agent") = {}
              /\ CallsOf("create_interrupt_hook") = {}
    /\ pc = "L204" => CallsOf("create_react_agent") = {}
    /\ CallsOf("create_react_agent") # {} => pc = "returned"

C10_Witness ==
    /\ pc = "raised"
    /\ outcome = ConfigError
    /\ args.model = None
    /\ CallsOf("get_default_model") # {}
    /\ CallsOf("_create_task_tool") # {}

====
